---- MODULE Spec2Model ----
(***************************************************************************)
(* StreamVio transcoder core (core/src/transcoder/transcoder.cpp) as a     *)
(* state machine.                                                          *)
(*                                                                         *)
(* The Transcoder keeps one map, progressMap, keyed by output path.        *)
(* startTranscode runs on the caller's thread from its first line to its   *)
(* return; the only places where other code runs in between are the three  *)
(* calls of progressCallback (0, 50, 100).  The callback is caller code    *)
(* (server/native/transcoder_binding.cc:130-132 calls straight into        *)
(* JavaScript), so while it runs it may call startTranscode,               *)
(* cancelTranscode and getTranscodeProgress on the same Transcoder.        *)
(* stack holds the activations of startTranscode that are suspended        *)
(* inside a progressCallback, innermost last.                              *)
(***************************************************************************)
EXTENDS Integers, Sequences, FiniteSets, TLC

\* ------------------------------------------------------------------ bounds
Paths == {"a.mp4", "b.mp4", "c.mp4"}   \* file paths used as input and output
InitialFiles == {"a.mp4"}              \* files that exist at start
MaxDepth == 2                          \* nested startTranscode activations
MaxStarts == 3                         \* startTranscode calls in one run

\* ------------------------------------------------------- program constants
NotFound == -1                         \* getTranscodeProgress: "No encontrado"
InitialProgress == 0                   \* progressMap[outputPath] = 0
FullProgress == 100                    \* progressMap[outputPath] = 100
ProgressSteps == <<0, 50, 100>>        \* progressCallback(0), (50), (100)
InputNotFoundMsg == "Input file not found"

VARIABLES
    fs,           \* set of paths of the files that exist
    progressMap,  \* Transcoder::progressMap : output path -> int
    stack,        \* startTranscode activations inside progressCallback
    cancelled,    \* history: stack positions whose path was cancelled since submit
    issued,       \* history: output paths of the submissions that were accepted
    nStarts,      \* number of startTranscode calls made (bounded by MaxStarts)
    lastCall,     \* the last call or callback: arguments and returned value
    cli,          \* one run of the command-line program (main.cpp)
    progressCallbacks, \* TranscoderWrapper::progressCallbacks : path -> handle
    released,     \* per ThreadSafeFunction created: the places that called Release()
    staleCall,    \* history: BlockingCall was made on a handle already released
    destroyed,    \* ~TranscoderWrapper has run
    lastBind      \* the last call of a method of TranscoderWrapper

cliVars == <<cli>>

bindVars == <<progressCallbacks, released, staleCall, destroyed, lastBind>>

vars == <<fs, progressMap, stack, cancelled, issued, nStarts, lastCall,
          cli, progressCallbacks, released, staleCall, destroyed, lastBind>>

\* std::map operator[] assignment: inserts the key when absent.
Put(m, k, v) == [x \in (DOMAIN m) \cup {k} |-> IF x = k THEN v ELSE m[x]]

EmptyMap == [x \in {} |-> 0]

\* InputGood with the existence check left out (a fault C7 must detect).
InputGoodUnchecked(inputPath) == TRUE

\* std::ifstream file(inputPath); file.good()
InputGood(inputPath) == inputPath \in fs

\* InitProgress storing the not-found sentinel (a fault C10 must detect).
InitProgressAtSentinel(m, outputPath) == Put(m, outputPath, NotFound)

\* progressMap[outputPath] = 0  ("Inicializar el progreso")
InitProgress(m, outputPath) == Put(m, outputPath, InitialProgress)

\* MarkCompleted with the final mark left out (a fault C5 must detect).
MarkCompletedSkipped(m, outputPath) == m

\* progressMap[outputPath] = 100  ("Marcar como completado")
MarkCompleted(m, outputPath) == Put(m, outputPath, FullProgress)

\* progressMap[outputPath] = 100 in cancelTranscode ("Marcar como completo")
MarkCancelled(m, outputPath) == Put(m, outputPath, FullProgress)

\* int Transcoder::getTranscodeProgress(outputPath)
GetTranscodeProgress(outputPath) ==
    IF outputPath \in DOMAIN progressMap THEN progressMap[outputPath]
    ELSE NotFound

\* The record of a call: what was called with which arguments and what came
\* back.  returned says whether the call has returned to its caller; ok is a
\* bool return value, value an int passed to the callback or returned by
\* getTranscodeProgress, err the line written to std::cerr.
Call(op, inputPath, outputPath, returned, ok, value, err) ==
    [op |-> op, input |-> inputPath, out |-> outputPath, returned |-> returned,
     ok |-> ok, value |-> value, err |-> err]

\* The Transcoder after its constructor and initialize().
TranscoderInit ==
    /\ fs = InitialFiles
    /\ progressMap = EmptyMap
    /\ stack = << >>
    /\ cancelled = {}
    /\ issued = {}
    /\ nStarts = 0
    /\ lastCall = Call("none", "", "", TRUE, TRUE, NotFound, "")

\* The record of a call of a TranscoderWrapper method: handle is the
\* ThreadSafeFunction the call created (0 when none), threw whether it ended
\* by throwing a JavaScript exception, ok its boolean result.
BindCall(op, outputPath, hasCallback, handle, ok, threw) ==
    [op |-> op, out |-> outputPath, hasCallback |-> hasCallback,
     handle |-> handle, ok |-> ok, threw |-> threw]

\* The TranscoderWrapper after its constructor: no callback is held.
WrapperInit ==
    /\ progressCallbacks = EmptyMap
    /\ released = EmptyMap
    /\ staleCall = FALSE
    /\ destroyed = FALSE
    /\ lastBind = BindCall("none", "", FALSE, 0, TRUE, FALSE)

\* No command-line run is under way.
CliIdle == [pc |-> "idle"]

Init ==
    /\ TranscoderInit
    /\ WrapperInit
    /\ cli = CliIdle

\* startTranscode, from its entry to its return or, with a progressCallback,
\* to the point where progressCallback(0) has been entered.
StartTranscode(inputPath, outputPath, hasCallback) ==
    /\ nStarts < MaxStarts
    /\ nStarts' = nStarts + 1
    /\ UNCHANGED <<cliVars, bindVars>>
    /\ IF ~InputGood(inputPath)
       THEN \* lines 42-46: report and return false
            /\ lastCall' = Call("start", inputPath, outputPath, TRUE, FALSE,
                                NotFound, InputNotFoundMsg)
            /\ UNCHANGED <<fs, progressMap, stack, cancelled, issued>>
       ELSE IF hasCallback
       THEN \* lines 49, 52-53: record 0, then enter progressCallback(0)
            /\ Len(stack) < MaxDepth
            /\ progressMap' = InitProgress(progressMap, outputPath)
            /\ stack' = Append(stack, [out |-> outputPath, idx |-> 1])
            /\ lastCall' = Call("start", inputPath, outputPath, FALSE, TRUE,
                                ProgressSteps[1], "")
            /\ issued' = issued \cup {outputPath}
            /\ UNCHANGED <<fs, cancelled>>
       ELSE \* lines 49, 59-66 with an empty std::function: nothing is called
            /\ progressMap' = MarkCompleted(InitProgress(progressMap, outputPath),
                                            outputPath)
            /\ fs' = fs \cup {outputPath}
            /\ lastCall' = Call("start", inputPath, outputPath, TRUE, TRUE,
                                NotFound, "")
            /\ issued' = issued \cup {outputPath}
            /\ UNCHANGED <<stack, cancelled>>

\* The innermost progressCallback returns into startTranscode, which goes on
\* to its next progressCallback (lines 54, 55) or, after the last one, marks
\* the job completed, writes the output file and returns true (lines 59-66).
CallbackReturn ==
    /\ Len(stack) > 0
    /\ UNCHANGED <<cliVars, bindVars>>
    /\ LET top == stack[Len(stack)] IN
       IF top.idx < Len(ProgressSteps)
       THEN /\ stack' = [stack EXCEPT ![Len(stack)].idx = top.idx + 1]
            /\ lastCall' = Call("callback", "", top.out, FALSE, TRUE,
                                ProgressSteps[top.idx + 1], "")
            /\ UNCHANGED <<fs, progressMap, cancelled, issued, nStarts>>
       ELSE /\ progressMap' = MarkCompleted(progressMap, top.out)
            /\ fs' = fs \cup {top.out}
            /\ stack' = SubSeq(stack, 1, Len(stack) - 1)
            /\ cancelled' = cancelled \ {Len(stack)}
            /\ lastCall' = Call("return", "", top.out, TRUE, TRUE, NotFound, "")
            /\ UNCHANGED <<issued, nStarts>>

\* bool Transcoder::cancelTranscode(outputPath)
CancelTranscode(outputPath) ==
    /\ progressMap' = MarkCancelled(progressMap, outputPath)
    /\ cancelled' = cancelled \cup
                    {d \in 1..Len(stack) : stack[d].out = outputPath}
    /\ lastCall' = Call("cancel", "", outputPath, TRUE, TRUE, NotFound, "")
    /\ UNCHANGED <<fs, stack, issued, nStarts>>
    /\ UNCHANGED <<cliVars, bindVars>>

\* A caller polls: getTranscodeProgress(outputPath)
Poll(outputPath) ==
    /\ lastCall' = Call("poll", "", outputPath, TRUE, TRUE,
                        GetTranscodeProgress(outputPath), "")
    /\ UNCHANGED <<fs, progressMap, stack, cancelled, issued, nStarts>>
    /\ UNCHANGED <<cliVars, bindVars>>

Next ==
    \/ \E i \in Paths, o \in Paths, cb \in BOOLEAN : StartTranscode(i, o, cb)
    \/ CallbackReturn
    \/ \E o \in Paths : CancelTranscode(o)
    \/ \E o \in Paths : Poll(o)

Spec == Init /\ [][Next]_vars

\* A progressCallback that was entered returns.
FairSpec == Spec /\ WF_vars(CallbackReturn)

\* ------------------------------------------- the command-line program
\* std::stoi reads the text of an argument: characters are one-letter strings.
Digits == <<"0", "1", "2", "3", "4", "5", "6", "7", "8", "9">>

IsDigit(c) == \E d \in 1..10 : Digits[d] = c

DigitValue(c) == (CHOOSE d \in 1..10 : Digits[d] = c) - 1

\* The largest int: std::stoi throws std::out_of_range above it.
IntMax == 2147483647

\* Leading white space is skipped (strtol).
RECURSIVE SkipSpace(_)
SkipSpace(t) ==
    IF t # << >> /\ Head(t) = " " THEN SkipSpace(Tail(t)) ELSE t

\* The longest prefix of t made of digits.
RECURSIVE DigitPrefix(_)
DigitPrefix(t) ==
    IF t # << >> /\ IsDigit(Head(t)) THEN <<Head(t)>> \o DigitPrefix(Tail(t))
    ELSE << >>

\* The number the digits ds denote, from acc on; -1 once it exceeds IntMax.
RECURSIVE Accumulate(_, _)
Accumulate(ds, acc) ==
    IF ds = << >> THEN acc
    ELSE IF acc = -1 \/ acc > (IntMax - DigitValue(Head(ds))) \div 10 THEN -1
    ELSE Accumulate(Tail(ds), acc * 10 + DigitValue(Head(ds)))

\* std::stoi(text): white space, an optional sign, then digits; what follows
\* the digits is ignored.  No digit: std::invalid_argument.  Too large:
\* std::out_of_range.  (The one value -2147483648 is taken as out of range.)
Stoi(text) ==
    LET t == SkipSpace(text)
        signed == t # << >> /\ Head(t) \in {"-", "+"}
        ds == DigitPrefix(IF signed THEN Tail(t) ELSE t)
        n == Accumulate(ds, 0)
    IN  IF ds = << >> THEN [throws |-> "invalid_argument", value |-> 0]
        ELSE IF n = -1 THEN [throws |-> "out_of_range", value |-> 0]
        ELSE [throws |-> "",
              value |-> IF signed /\ Head(t) = "-" THEN 0 - n ELSE n]

\* getOptionValueInt (main.cpp:43-53): an empty or unreadable value gives the
\* default 0; the exception of std::stoi is caught.
GetOptionValueInt(text) ==
    IF text = << >> THEN 0
    ELSE IF Stoi(text).throws # "" THEN 0
    ELSE Stoi(text).value

\* The words a run is started with.
Commands == {"info", "transcode", "thumbnail", "frobnicate"}

\* Texts of a fourth argument: the time offset of thumbnail, or the value of
\* --vbitrate= of transcode.
NumberTexts ==
    { <<"5">>, <<"1", "2", "a">>, <<"-", "7">>, <<" ", "3">>, <<"a", "b", "c">>,
      << >>, <<"9", "9", "9", "9", "9", "9", "9", "9", "9", "9">> }

\* A run with n arguments after the program name: command, input path, output
\* path, number text.  Arguments that are not given are left empty.
Launch(n, c, i, o, x) ==
    [pc |-> "main", argc |-> n,
     command |-> IF n >= 1 THEN c ELSE "",
     input |-> IF n >= 2 THEN i ELSE "",
     output |-> IF n >= 3 THEN o ELSE "",
     number |-> IF n >= 4 THEN x ELSE << >>,
     usage |-> FALSE, exit |-> -1, crashed |-> FALSE, value |-> 0]

Launches ==
    {Launch(n, c, i, o, x) :
        n \in 0..4, c \in Commands, i \in Paths, o \in Paths, x \in NumberTexts}

\* The process has ended with exit code e.
Exit(run, e) == [run EXCEPT !.pc = "done", !.exit = e]

\* An exception no handler catches: std::terminate ends the process.
Terminate(run) == [run EXCEPT !.pc = "done", !.crashed = TRUE]

CliInit ==
    /\ TranscoderInit
    /\ WrapperInit
    /\ cli \in Launches

coreVars == <<fs, progressMap, stack, cancelled, issued, nStarts, lastCall>>

\* main.cpp:74-88: no command prints the usage and exits 1.
CliMain ==
    /\ cli.pc = "main"
    /\ cli' = IF cli.argc < 1
              THEN Exit([cli EXCEPT !.usage = TRUE], 1)
              ELSE [cli EXCEPT !.pc = "dispatch"]
    /\ UNCHANGED <<coreVars, bindVars>>

\* main.cpp:91-119: info.
CliInfo ==
    /\ cli.pc = "dispatch" /\ cli.command = "info"
    /\ cli' = IF cli.argc < 2 THEN Exit(cli, 1) ELSE Exit(cli, 0)
    /\ UNCHANGED <<coreVars, bindVars>>

\* main.cpp:120-146: transcode.  progressCallback (main.cpp:65-71) only
\* prints, so startTranscode runs from its first line to its return.
CliTranscode ==
    /\ cli.pc = "dispatch" /\ cli.command = "transcode"
    /\ IF cli.argc < 3
       THEN cli' = Exit(cli, 1) /\ UNCHANGED <<fs, progressMap>>
       ELSE IF ~InputGood(cli.input)
       THEN /\ cli' = Exit([cli EXCEPT !.value = GetOptionValueInt(cli.number)], 1)
            /\ UNCHANGED <<fs, progressMap>>
       ELSE /\ progressMap' = MarkCompleted(InitProgress(progressMap, cli.output),
                                            cli.output)
            /\ fs' = fs \cup {cli.output}
            /\ cli' = [cli EXCEPT !.pc = "poll",
                                  !.value = GetOptionValueInt(cli.number)]
    /\ UNCHANGED <<stack, cancelled, issued, nStarts, lastCall, bindVars>>

\* main.cpp:150-154: wait until the progress reaches 100.
CliPoll ==
    /\ cli.pc = "poll"
    /\ cli' = IF GetTranscodeProgress(cli.output) < FullProgress
              THEN cli
              ELSE Exit(cli, 0)
    /\ UNCHANGED <<coreVars, bindVars>>

\* main.cpp:159-180: thumbnail.  std::stoi(args[3]) stands before the try
\* block; generateThumbnail (transcoder.cpp:83-101) writes the output file
\* when the input can be opened.
CliThumbnail ==
    /\ cli.pc = "dispatch" /\ cli.command = "thumbnail"
    /\ IF cli.argc < 3
       THEN cli' = Exit(cli, 1) /\ UNCHANGED fs
       ELSE IF cli.argc > 3 /\ Stoi(cli.number).throws # ""
       THEN cli' = Terminate(cli) /\ UNCHANGED fs
       ELSE LET offset == IF cli.argc > 3 THEN Stoi(cli.number).value ELSE 0 IN
            IF InputGood(cli.input)
            THEN /\ fs' = fs \cup {cli.output}
                 /\ cli' = Exit([cli EXCEPT !.value = offset], 0)
            ELSE /\ cli' = Exit([cli EXCEPT !.value = offset], 1)
                 /\ UNCHANGED fs
    /\ UNCHANGED <<progressMap, stack, cancelled, issued, nStarts, lastCall,
                   bindVars>>

\* main.cpp:181-185: any other command prints the usage and exits 1.
CliUnknown ==
    /\ cli.pc = "dispatch"
    /\ cli.command \notin {"info", "transcode", "thumbnail"}
    /\ cli' = Exit([cli EXCEPT !.usage = TRUE], 1)
    /\ UNCHANGED <<coreVars, bindVars>>

CliNext ==
    \/ CliMain
    \/ CliInfo
    \/ CliTranscode
    \/ CliPoll
    \/ CliThumbnail
    \/ CliUnknown

CliSpec == CliInit /\ [][CliNext]_vars

\* ------------------------- the N-API binding (StreamVio/server/native)
\* Every method of TranscoderWrapper runs on the JavaScript thread from its
\* first line to its return: tsfn.BlockingCall only queues the JavaScript
\* callback, so nothing re-enters the wrapper while a method runs.
MaxHandles == 3                        \* ThreadSafeFunctions created in one run

Range(m) == {m[k] : k \in DOMAIN m}

\* Napi::ThreadSafeFunction::New: the next handle.
NewHandle == Cardinality(DOMAIN released) + 1

\* tsfn.Release() called at site; a third call is recorded as the second.
ReleaseHandle(rel, h, site) ==
    [rel EXCEPT ![h] = IF Len(@) < 2 THEN Append(@, site) ELSE @]

\* EraseCallback with the erase left out (a fault C12 must detect).
EraseCallbackSkipped(m, outputPath) == m

\* progressCallbacks.erase(it)
EraseCallback(m, outputPath) == [x \in (DOMAIN m) \ {outputPath} |-> m[x]]

\* ClearCallbacks with the clear left out (a fault C17 must detect).
ClearCallbacksSkipped(m) == m

\* progressCallbacks.clear()
ClearCallbacks(m) == EmptyMap

\* The callback state a method works on: the map, the Release() calls made
\* on each handle, and whether a released handle was called.
Held(cb, rel, stale) == [cb |-> cb, rel |-> rel, stale |-> stale]

\* progressHandler(progress), lines 175-194: under callbackMutex, look the
\* path up, BlockingCall the handle found, and at 100 release and erase it.
ProgressHandler(st, outputPath, progress) ==
    IF outputPath \notin DOMAIN st.cb THEN st
    ELSE LET h == st.cb[outputPath]
             called == [st EXCEPT !.stale = @ \/ st.rel[h] # << >>]
         IN  IF progress >= FullProgress
             THEN [called EXCEPT !.rel = ReleaseHandle(@, h, "handler"),
                                 !.cb = EraseCallback(@, outputPath)]
             ELSE called

\* startTranscode calling progressHandler with 0, 50 and 100 in turn.
RECURSIVE EmitProgress(_, _, _)
EmitProgress(st, outputPath, i) ==
    IF i > Len(ProgressSteps) THEN st
    ELSE EmitProgress(ProgressHandler(st, outputPath, ProgressSteps[i]),
                      outputPath, i + 1)

\* The catch block of StartTranscode, lines 200-209.
CatchPath(st, outputPath, hasCallback) ==
    IF hasCallback /\ outputPath \in DOMAIN st.cb
    THEN [st EXCEPT !.rel = ReleaseHandle(@, st.cb[outputPath], "catch"),
                    !.cb = EraseCallback(@, outputPath)]
    ELSE st

\* The value cancelTranscode returns (transcoder.cpp:72).
CancelReturns(outputPath) == TRUE

\* TranscoderWrapper::StartTranscode.  throwAt says where startTranscode
\* throws std::bad_alloc, the one exception it can raise: "init" when line 49
\* inserts a new key, "end" when line 62 opens the output stream.
BindStartTranscode(inputPath, outputPath, hasCallback, throwAt) ==
    /\ ~destroyed
    /\ hasCallback => Cardinality(DOMAIN released) < MaxHandles
    /\ throwAt = "init" => outputPath \notin DOMAIN progressMap
    /\ LET h == IF hasCallback THEN NewHandle ELSE 0
           st0 == IF hasCallback
                  THEN Held(Put(progressCallbacks, outputPath, h),
                            Put(released, h, << >>), staleCall)
                  ELSE Held(progressCallbacks, released, staleCall)
           st3 == EmitProgress(st0, outputPath, 1)
           st == IF ~InputGood(inputPath) THEN st0
                 ELSE IF throwAt = "init" THEN CatchPath(st0, outputPath, hasCallback)
                 ELSE IF throwAt = "end" THEN CatchPath(st3, outputPath, hasCallback)
                 ELSE st3
           threw == InputGood(inputPath) /\ throwAt # "none"
       IN  /\ progressCallbacks' = st.cb
           /\ released' = st.rel
           /\ staleCall' = st.stale
           /\ lastBind' = BindCall("start", outputPath, hasCallback, h,
                                   InputGood(inputPath) /\ ~threw, threw)
           /\ progressMap' =
                 IF ~InputGood(inputPath) \/ throwAt = "init" THEN progressMap
                 ELSE MarkCompleted(InitProgress(progressMap, outputPath),
                                    outputPath)
           /\ fs' = IF InputGood(inputPath) /\ ~threw
                    THEN fs \cup {outputPath} ELSE fs
    /\ UNCHANGED <<stack, cancelled, issued, nStarts, lastCall, destroyed, cliVars>>

\* TranscoderWrapper::CancelTranscode, lines 216-238.
BindCancelTranscode(outputPath) ==
    /\ ~destroyed
    /\ progressMap' = MarkCancelled(progressMap, outputPath)
    /\ IF CancelReturns(outputPath) /\ outputPath \in DOMAIN progressCallbacks
       THEN /\ released' = ReleaseHandle(released,
                                         progressCallbacks[outputPath], "cancel")
            /\ progressCallbacks' = EraseCallback(progressCallbacks, outputPath)
       ELSE UNCHANGED <<released, progressCallbacks>>
    /\ lastBind' = BindCall("cancel", outputPath, FALSE, 0,
                            CancelReturns(outputPath), FALSE)
    /\ UNCHANGED <<fs, stack, cancelled, issued, nStarts, lastCall, staleCall,
                   destroyed, cliVars>>

\* TranscoderWrapper::GetTranscodeProgress, lines 240-252.
BindGetTranscodeProgress(outputPath) ==
    /\ ~destroyed
    /\ lastBind' = BindCall("poll", outputPath, FALSE, 0,
                            GetTranscodeProgress(outputPath) # NotFound, FALSE)
    /\ UNCHANGED <<coreVars, cliVars, progressCallbacks, released, staleCall,
                   destroyed>>

\* The handles of map m, each released once more at site.
RECURSIVE ReleaseAll(_, _, _)
ReleaseAll(rel, hs, site) ==
    IF hs = {} THEN rel
    ELSE LET h == CHOOSE x \in hs : TRUE
         IN  ReleaseAll(ReleaseHandle(rel, h, site), hs \ {h}, site)

\* TranscoderWrapper::~TranscoderWrapper, lines 55-62.
BindDestructor ==
    /\ ~destroyed
    /\ released' = ReleaseAll(released, Range(progressCallbacks), "destructor")
    /\ progressCallbacks' = ClearCallbacks(progressCallbacks)
    /\ destroyed' = TRUE
    /\ lastBind' = BindCall("destructor", "", FALSE, 0, TRUE, FALSE)
    /\ UNCHANGED <<coreVars, cliVars, staleCall>>

BindNext ==
    \/ \E i \in Paths, o \in Paths, cb \in BOOLEAN,
          t \in {"none", "init", "end"} : BindStartTranscode(i, o, cb, t)
    \/ \E o \in Paths : BindCancelTranscode(o)
    \/ \E o \in Paths : BindGetTranscodeProgress(o)
    \/ BindDestructor

BindingSpec == Init /\ [][BindNext]_vars

\* ------------------------------------------------------- derived notions
\* The code keeps no status.  A submission is active while its startTranscode
\* has not returned and no cancelTranscode of its path has returned since it
\* was submitted; it is terminal once it was accepted and is no longer active.
OnStack(p) == \E d \in 1..Len(stack) : stack[d].out = p

Active(p) == \E d \in 1..Len(stack) : stack[d].out = p /\ d \notin cancelled

Terminal(p) == p \in issued /\ ~Active(p)

\* The call recorded in c was a submission that was not refused.
Accepted(c) == c.op = "start" /\ ~(c.returned /\ ~c.ok)

\* ------------------------------------------------------------------ claims

\* C1: a submit that targets a path with an active job fails with
\* DuplicateActiveOutput and leaves that job's progress and status as they
\* were; a submit of an existing input to a path whose job is terminal
\* succeeds.
C1_DuplicateActiveOutputRejected ==
    [][\A p \in Paths :
          (lastCall'.op = "start" /\ lastCall'.out = p) =>
              /\ Active(p) =>
                    /\ lastCall'.returned /\ ~lastCall'.ok
                    /\ lastCall'.err = "DuplicateActiveOutput"
                    /\ GetTranscodeProgress(p)' = GetTranscodeProgress(p)
                    /\ Active(p)'
              /\ (Terminal(p) /\ lastCall'.input \in fs) => Accepted(lastCall')
      ]_vars

\* C2: cancel of an active job returns true and leaves it cancelled; cancel of
\* a job that is already terminal returns false and changes neither its
\* status nor its progress.
C2_CancelOnceThenFalse ==
    [][\A p \in Paths :
          (lastCall'.op = "cancel" /\ lastCall'.out = p) =>
              /\ Active(p) => (lastCall'.ok /\ ~Active(p)')
              /\ Terminal(p) =>
                    /\ ~lastCall'.ok
                    /\ GetTranscodeProgress(p)' = GetTranscodeProgress(p)
                    /\ Terminal(p)'
      ]_vars

\* C3: once cancel of a job's path has returned, the job's progressCallback
\* is not invoked again.  (A job that completed has left the stack and gets
\* no further callback; the cancel half is what the code can break.)
C3_NoCallbackAfterCancel ==
    lastCall.op = "callback" => Len(stack) \notin cancelled

\* C4: for every path the value a poll returns never decreases from one
\* moment to the next, and the values handed to the progressCallback of one
\* activation never decrease.
C4_ProgressNonDecreasing ==
    [][/\ \A p \in Paths : GetTranscodeProgress(p)' >= GetTranscodeProgress(p)
       /\ \A d \in 1..Len(stack) :
             (d <= Len(stack') /\ stack'[d].out = stack[d].out) =>
                 ProgressSteps[stack'[d].idx] >= ProgressSteps[stack[d].idx]
      ]_vars

\* A startTranscode that returned true has left 100 in progressMap: the poll
\* right after the return reads 100.
SubmitReturnsCompleted ==
    (lastCall.op \in {"start", "return"} /\ lastCall.returned /\ lastCall.ok)
        => GetTranscodeProgress(lastCall.out) = FullProgress

\* C5: every accepted submission leads to a state in which its startTranscode
\* has returned and polling its path returns exactly 100 (so the loop of
\* main.cpp:150 ends); and whenever startTranscode returns true the poll
\* already reads 100.
C5_SubmitReachesCompleted ==
    /\ []SubmitReturnsCompleted
    /\ \A p \in Paths :
          (Accepted(lastCall) /\ lastCall.out = p)
              ~> (~OnStack(p) /\ GetTranscodeProgress(p) = FullProgress)

\* C5 witness: a submission with a progressCallback has run through its three
\* callbacks and returned, and the poll of its path reads 100.
C5_Witness ==
    /\ lastCall.op = "return"
    /\ ~OnStack(lastCall.out)
    /\ GetTranscodeProgress(lastCall.out) = FullProgress

\* C6: cancel of a submitted job leaves the progress reported for it at the
\* value recorded before the cancel; it is never forced to 100.
C6_CancelKeepsProgress ==
    [][\A p \in Paths :
          (lastCall'.op = "cancel" /\ lastCall'.out = p /\ p \in issued) =>
              GetTranscodeProgress(p)' = GetTranscodeProgress(p)
      ]_vars

\* C7: startTranscode with an input that cannot be opened returns false at
\* once with the input-not-found report, enters no progressCallback, and
\* leaves every job record, and so every reported progress, as it was.
C7_MissingInputRejected ==
    [][(lastCall'.op = "start" /\ lastCall'.input \notin fs) =>
          /\ lastCall'.returned /\ ~lastCall'.ok
          /\ lastCall'.err = InputNotFoundMsg
          /\ stack' = stack
          /\ progressMap' = progressMap
          /\ \A p \in Paths : GetTranscodeProgress(p)' = GetTranscodeProgress(p)
          /\ issued' = issued /\ fs' = fs
      ]_vars

\* C7 witness: a submit with a missing input was refused while a record for
\* its output path existed and another submission was in its callback.
C7_Witness ==
    /\ lastCall.op = "start" /\ lastCall.returned /\ ~lastCall.ok
    /\ lastCall.input \notin fs
    /\ lastCall.out \in DOMAIN progressMap
    /\ Len(stack) > 0

\* C8: an accepted submit gets an identity no earlier job had, and the
\* progress reported for every earlier job's identity is left as it was.
C8_IdentityNeverReused ==
    [][Accepted(lastCall') =>
          /\ lastCall'.out \notin issued
          /\ \A q \in issued : GetTranscodeProgress(q)' = GetTranscodeProgress(q)
      ]_vars

\* C9: no progressCallback runs on the caller's context before startTranscode
\* has returned, that is, no activation of startTranscode is ever suspended
\* inside a progressCallback.
C9_NoCallbackBeforeSubmitReturns ==
    Len(stack) = 0

C11_ExitZeroOrOneNeverCrash ==
    cli.pc = "done" =>
        /\ ~cli.crashed
        /\ cli.exit \in {0, 1}
        /\ (cli.argc < 1 \/ cli.command \notin {"info", "transcode", "thumbnail"})
              => (cli.usage /\ cli.exit = 1)
        /\ (cli.command = "thumbnail" /\ cli.argc > 3
                /\ Stoi(cli.number).throws # "") => cli.exit = 1

\* C12: no ThreadSafeFunction is released twice, and none is called after it
\* was released, whatever the order of StartTranscode (with its progress
\* handler and its catch block), CancelTranscode and the destructor.
C12_NoDoubleReleaseNoStaleCall ==
    /\ \A h \in DOMAIN released : Len(released[h]) <= 1
    /\ ~staleCall

\* C12 witness: the wrapper was destroyed after handles were released by the
\* progress handler, by CancelTranscode and by the destructor.
C12_Witness ==
    /\ destroyed
    /\ {"handler", "cancel", "destructor"} \subseteq
          {released[h][1] : h \in {x \in DOMAIN released : released[x] # << >>}}

\* C13: a handle created by a StartTranscode that returned false is released
\* and no longer held in progressCallbacks; and every handle that is no
\* longer held has been released exactly once.
C13_EveryHandleReleasedOnce ==
    /\ (lastBind.op = "start" /\ lastBind.hasCallback
            /\ ~lastBind.ok /\ ~lastBind.threw) =>
          /\ lastBind.handle \notin Range(progressCallbacks)
          /\ Len(released[lastBind.handle]) = 1
    /\ \A h \in DOMAIN released :
          h \notin Range(progressCallbacks) => Len(released[h]) = 1

\* C14: a StartTranscode that registers a callback for a path that already
\* has one releases the handle it replaces, and afterwards the path holds
\* the one new handle or none.
C14_ReplacedHandleReleased ==
    [][\A p \in Paths :
          (lastBind'.op = "start" /\ lastBind'.hasCallback /\ lastBind'.out = p
              /\ p \in DOMAIN progressCallbacks) =>
             /\ Len(released'[progressCallbacks[p]]) = 1
             /\ progressCallbacks[p] \notin Range(progressCallbacks')
      ]_vars

\* C15: whenever a progressCallback is running with value v for a job, the
\* progress polled for that job's path is at least v.
C15_RegistryUpdatedBeforeDelivery ==
    \A d \in 1..Len(stack) :
        GetTranscodeProgress(stack[d].out) >= ProgressSteps[stack[d].idx]

\* C16: cancelTranscode of a path for which no job was ever submitted creates
\* no record in progressMap, and the poll of that path still returns -1.
C16_CancelUnknownIsNoOp ==
    [][\A p \in Paths :
          (lastCall'.op = "cancel" /\ lastCall'.out = p /\ p \notin issued) =>
             /\ DOMAIN progressMap' = DOMAIN progressMap
             /\ GetTranscodeProgress(p)' = NotFound
      ]_vars

\* C17: every handle held in progressCallbacks is unreleased, and a step that
\* releases a handle leaves no entry for it in progressCallbacks.
C17_HeldHandlesUnreleased ==
    /\ \A p \in DOMAIN progressCallbacks :
          released[progressCallbacks[p]] = << >>
    /\ \A h \in DOMAIN released :
          released[h] # << >> => h \notin Range(progressCallbacks)

\* C17 witness: a handle is held while others were released by the catch
\* block of StartTranscode and by CancelTranscode; and the state after the
\* destructor released a held handle.
C17_Witness ==
    \/ /\ progressCallbacks # EmptyMap
       /\ \E h \in DOMAIN released : released[h] = <<"catch">>
       /\ \E h \in DOMAIN released : released[h] = <<"cancel">>
    \/ /\ destroyed
       /\ \E h \in DOMAIN released : released[h] = <<"destructor">>
       /\ lastBind.op = "none"

====
